---- MODULE Spec2Model ----
(***************************************************************************)
(* TraceProcessor of lighthouse-core/lib/asset-saver-metrics.js:           *)
(*   _riskPercentiles         the percentile walk over sorted durations    *)
(*   getRiskToResponsiveness  the window sampler that feeds it             *)
(*   getLogNormalDistribution the log-normal parameter fit                 *)
(*                                                                         *)
(* Numbers.  JavaScript numbers are modelled by exact arithmetic:          *)
(*   - times are whole milliseconds, timestamps whole multiples of 1000    *)
(*     microseconds, so that ts / 1000 is exact;                           *)
(*   - a percentile p is held as the integer p * PercentDen;               *)
(*   - a quotient is held as a fraction [num, den] with den > 0, or as one *)
(*     of the IEEE specials "+inf", "-inf", "nan" that a division by zero  *)
(*     produces.                                                           *)
(* Rounding of binary floating point is not modelled.                      *)
(***************************************************************************)
EXTENDS Integers, Sequences, FiniteSets, TLC

(***************************************************************************)
(* Bounds of the model.                                                    *)
(***************************************************************************)
MaxDurations == 3       \* longest duration sample handed to _riskPercentiles
MaxDuration == 3        \* largest single duration (ms) of that sample
MaxTotalTime == 7       \* largest totalTime (ms)
MaxClipped == 2         \* largest clippedLength (ms) of a direct call
MaxPercentiles == 2     \* longest percentile request of a direct call
MaxEvents == 3          \* longest trace handed to getRiskToResponsiveness
MaxFit == 8             \* median and falloff go up to MaxFit * FitUnit

(***************************************************************************)
(* Program constants.                                                      *)
(***************************************************************************)
BASE_RESPONSE_LATENCY == 16
PercentDen == 100       \* percentiles are written with two decimals
Undefined == -1         \* the JavaScript value undefined of an unset argument or field
UsPerMs == 1000         \* timestamps and durations of events are microseconds

VARIABLES
  pc,               \* position of the call
  durations,        \* _riskPercentiles: durations (the array of the caller)
  totalTime,        \* _riskPercentiles: totalTime
  percentiles,      \* _riskPercentiles: percentiles (the array of the caller)
  clippedLength,    \* _riskPercentiles: clippedLength (parameter, reassigned)
  completedTime, duration, cdfTime, results, durationIndex, remainingCount,
  pIdx,             \* position of the for-of loop over percentiles (1-based)
  inDurations, inTotalTime, inPercentiles, inClippedLength,  \* the arguments as passed
  traceEvents,      \* getRiskToResponsiveness: trace.traceEvents (the array of the caller)
  startTime, endTime,   \* getRiskToResponsiveness: parameters, reassigned by the defaulting
  percentilesArg,   \* getRiskToResponsiveness: the percentiles argument as passed
  tsBase, startEvent, topLevelTasks,
  taskIdx,          \* position of topLevelTasks.forEach (1-based)
  grClippedLength,  \* getRiskToResponsiveness: its local clippedLength
  inTraceEvents,    \* trace.traceEvents as it was when the call was made
  median, falloff,  \* getLogNormalDistribution: its arguments
  location, shape   \* getLogNormalDistribution: the arguments of the constructor call

rpVars == <<durations, totalTime, percentiles, clippedLength, completedTime,
            duration, cdfTime, results, durationIndex, remainingCount, pIdx>>
inVars == <<inDurations, inTotalTime, inPercentiles, inClippedLength>>
grVars == <<traceEvents, startTime, endTime, percentilesArg, tsBase, startEvent,
            topLevelTasks, taskIdx, grClippedLength, inTraceEvents>>
lnVars == <<median, falloff, location, shape>>
vars == <<pc, rpVars, inVars, grVars, lnVars>>

----------------------------------------------------------------------------
(* Helpers for JavaScript values.                                          *)

RECURSIVE SumSeq(_)
SumSeq(s) == IF s = <<>> THEN 0 ELSE Head(s) + SumSeq(Tail(s))

Abs(x) == IF x < 0 THEN -x ELSE x

\* a / b of two numbers, IEEE 754: a zero divisor gives an infinity or NaN
Divide(a, b) ==
  IF b = 0
    THEN IF a > 0 THEN [kind |-> "+inf", num |-> 0, den |-> 1]
         ELSE IF a < 0 THEN [kind |-> "-inf", num |-> 0, den |-> 1]
         ELSE [kind |-> "nan", num |-> 0, den |-> 1]
    ELSE IF b > 0 THEN [kind |-> "fin", num |-> a, den |-> b]
         ELSE [kind |-> "fin", num |-> -a, den |-> -b]

\* Math.max(0, x)
MathMax0(x) ==
  CASE x.kind = "nan" -> x
    [] x.kind = "+inf" -> x
    [] x.kind = "-inf" -> [kind |-> "fin", num |-> 0, den |-> 1]
    [] OTHER -> IF x.num < 0 THEN [kind |-> "fin", num |-> 0, den |-> 1] ELSE x

\* x + n for an integer n
PlusInt(x, n) ==
  IF x.kind = "fin" THEN [x EXCEPT !.num = x.num + n * x.den] ELSE x

\* a <= b of two numbers (false as soon as one is NaN)
NumLeq(a, b) ==
  CASE a.kind = "nan" \/ b.kind = "nan" -> FALSE
    [] a.kind = "-inf" \/ b.kind = "+inf" -> TRUE
    [] a.kind = "+inf" \/ b.kind = "-inf" -> FALSE
    [] OTHER -> a.num * b.den <= b.num * a.den

----------------------------------------------------------------------------
(* _riskPercentiles                                                        *)

\* lines 185-204: the state before the loop over the percentiles
RiskPercentilesEntry(durs, total, pcts, clipped) ==
  LET clip == IF clipped = Undefined THEN 0 ELSE clipped
      busyTime == SumSeq(durs) - clip
  IN /\ durations' = durs
     /\ totalTime' = total
     /\ percentiles' = pcts
     /\ clippedLength' = clip
     /\ completedTime' = total - busyTime
     /\ duration' = 0
     /\ cdfTime' = total - busyTime
     /\ results' = <<>>
     /\ durationIndex' = -1
     /\ remainingCount' = IF clip > 0 THEN Len(durs) ELSE Len(durs) + 1
     /\ pIdx' = 1

\* line 210: percentileTime = percentile * totalTime, as a numerator over PercentDen
PercentileTime(pct) == pct * totalTime

\* line 211: the condition of the while loop, for the percentile in hand
WalkCondition ==
  /\ cdfTime * PercentDen < PercentileTime(percentiles[pIdx])
  /\ durationIndex < Len(durations) - 1

\* (variant) the count goes down whatever the sign of the duration walked over
NextRemainingCount_IgnoresSign == remainingCount - 1

\* line 213: remainingCount -= (duration < 0 ? -1 : 1)
NextRemainingCount == remainingCount - (IF duration < 0 THEN -1 ELSE 1)

\* line 215: the clipped length is taken as the next (negative) pseudo-duration
TakesClipped ==
  clippedLength > 0 /\ clippedLength < durations[durationIndex + 2]

\* (variant) the wait is measured from cdfTime instead of completedTime
Latency_FromCdfTime(pct) ==
  PlusInt(MathMax0(Divide(PercentileTime(pct) - cdfTime * PercentDen,
                          remainingCount * PercentDen)),
          BASE_RESPONSE_LATENCY)

\* line 230: Math.max(0, (percentileTime - completedTime) / remainingCount) + BASE_RESPONSE_LATENCY
Latency(pct) ==
  PlusInt(MathMax0(Divide(PercentileTime(pct) - completedTime * PercentDen,
                          remainingCount * PercentDen)),
          BASE_RESPONSE_LATENCY)

\* lines 211-225: one iteration of the while loop
WalkStep ==
  /\ pc = "walk"
  /\ pIdx <= Len(percentiles)
  /\ WalkCondition
  /\ completedTime' = completedTime + duration
  /\ remainingCount' = NextRemainingCount
  /\ IF TakesClipped
       THEN /\ duration' = -clippedLength
            /\ clippedLength' = 0
            /\ durationIndex' = durationIndex
       ELSE /\ durationIndex' = durationIndex + 1
            /\ duration' = durations[durationIndex + 2]
            /\ clippedLength' = clippedLength
  /\ cdfTime' = completedTime' + Abs(duration') * remainingCount'
  /\ UNCHANGED <<pc, durations, totalTime, percentiles, results, pIdx, inVars, grVars, lnVars>>

\* lines 227-231: the loop has stopped, the result of this percentile is pushed
PushResult ==
  /\ pc = "walk"
  /\ pIdx <= Len(percentiles)
  /\ ~WalkCondition
  /\ results' = Append(results, [percentile |-> percentiles[pIdx],
                                 time |-> Latency(percentiles[pIdx])])
  /\ pIdx' = pIdx + 1
  /\ UNCHANGED <<pc, durations, totalTime, percentiles, clippedLength, completedTime,
                 duration, cdfTime, durationIndex, remainingCount, inVars, grVars, lnVars>>

\* line 234: return results
ReturnResults ==
  /\ pc = "walk"
  /\ pIdx > Len(percentiles)
  /\ pc' = "returned"
  /\ UNCHANGED <<rpVars, inVars, grVars, lnVars>>

----------------------------------------------------------------------------
(* Direct calls of _riskPercentiles: the arguments are drawn from the      *)
(* sorted samples and ascending percentile requests its contract names.    *)

IsAscending(s) == \A i \in 1..(Len(s) - 1) : s[i] <= s[i + 1]

SeqsUpTo(S, n) == UNION {[1..k -> S] : k \in 0..n}

PercentChoices == {25, 50, 90, 100}

DurationSamples == {s \in SeqsUpTo(0..MaxDuration, MaxDurations) : IsAscending(s)}
PercentileRequests == {s \in SeqsUpTo(PercentChoices, MaxPercentiles) : IsAscending(s)}

RPIdle ==
  /\ durations = <<>> /\ totalTime = 0 /\ percentiles = <<>> /\ clippedLength = 0
  /\ completedTime = 0 /\ duration = 0 /\ cdfTime = 0 /\ results = <<>>
  /\ durationIndex = -1 /\ remainingCount = 0 /\ pIdx = 1

NoEvent == [pid |-> 0, tid |-> 0, name |-> "", ts |-> 0, dur |-> Undefined]

GRIdle ==
  /\ traceEvents = <<>> /\ startTime = Undefined /\ endTime = Undefined
  /\ percentilesArg = [given |-> FALSE, value |-> <<>>]
  /\ tsBase = 0 /\ startEvent = NoEvent /\ topLevelTasks = <<>> /\ taskIdx = 1
  /\ grClippedLength = 0 /\ inTraceEvents = <<>>

NotANumber == [kind |-> "nan", milli |-> 0]

LNIdle ==
  /\ median = 0 /\ falloff = 0 /\ location = NotANumber /\ shape = NotANumber

InitRP ==
  /\ pc = "callRP"
  /\ RPIdle
  /\ GRIdle
  /\ LNIdle
  /\ inDurations \in DurationSamples
  /\ inPercentiles \in PercentileRequests
  /\ inClippedLength \in 0..MaxClipped
  /\ inTotalTime \in 1..MaxTotalTime

\* the call _riskPercentiles(durations, totalTime, percentiles, clippedLength)
CallRiskPercentiles ==
  /\ pc = "callRP"
  /\ RiskPercentilesEntry(inDurations, inTotalTime, inPercentiles, inClippedLength)
  /\ pc' = "walk"
  /\ UNCHANGED <<inVars, grVars, lnVars>>

NextRP == CallRiskPercentiles \/ WalkStep \/ PushResult \/ ReturnResults

SpecRP == InitRP /\ [][NextRP]_vars

----------------------------------------------------------------------------
(* getRiskToResponsiveness                                                 *)

\* Array.prototype.sort with a numeric comparator, as an insertion sort: each
\* element goes behind the elements that do not compare greater, so elements
\* that compare equal keep their order (the arrays of the model are short; an
\* engine with an unstable sort may order equal timestamps otherwise)
RECURSIVE InsertByTs(_, _)
InsertByTs(e, s) ==
  IF s = <<>> THEN <<e>>
  ELSE IF e.ts < Head(s).ts THEN <<e>> \o s
  ELSE <<Head(s)>> \o InsertByTs(e, Tail(s))

\* line 248: traceEvents.sort((a, b) => a.ts - b.ts)
RECURSIVE SortByTs(_)
SortByTs(s) ==
  IF s = <<>> THEN <<>>
  ELSE InsertByTs(s[Len(s)], SortByTs(SubSeq(s, 1, Len(s) - 1)))

RECURSIVE InsertNumber(_, _)
InsertNumber(x, s) ==
  IF s = <<>> THEN <<x>>
  ELSE IF x < Head(s) THEN <<x>> \o s
  ELSE <<Head(s)>> \o InsertNumber(x, Tail(s))

\* lines 257, 300: sort((a, b) => a - b)
RECURSIVE SortNumbers(_)
SortNumbers(s) ==
  IF s = <<>> THEN <<>>
  ELSE InsertNumber(s[Len(s)], SortNumbers(SubSeq(s, 1, Len(s) - 1)))

\* line 248: .filter(e => e.ts !== 0)
NonZeroTs(evts) == SelectSeq(evts, LAMBDA e : e.ts # 0)

\* line 259: the default percentiles [0.5, 0.75, 0.9, 0.99, 1]
DefaultPercentiles == <<50, 75, 90, 99, 100>>

\* lines 263, 267: the array that startEvent and topLevelTasks are taken from is
\* trace.traceEvents (sorted in place by line 248), not the filtered events
SearchedEvents(sorted) == sorted

\* lines 263-265: the first TracingStartedInPage event; <<>> when find returns undefined
FindStartEvent(evts) ==
  LET hits == SelectSeq(evts, LAMBDA e : e.name = "TracingStartedInPage")
  IN IF hits = <<>> THEN <<>> ELSE <<Head(hits)>>

\* lines 267-270: the top-level tasks of the thread of startEvent
TopLevelTasksOf(evts, start) ==
  SelectSeq(evts, LAMBDA evt : /\ evt.pid = start.pid
                               /\ evt.tid = start.tid
                               /\ evt.name = "MessageLoop::RunTask")

\* x / 1000 (the events of the model carry whole milliseconds)
ToMs(us) == us \div UsPerMs

\* lines 276-278
EventStart(event) == ToMs(event.ts - tsBase)
EventDuration(event) == ToMs(IF event.dur = Undefined THEN 0 ELSE event.dur)
EventEnd(event) == EventStart(event) + EventDuration(event)

\* line 281: the event is outside the range
Discarded(event) == EventEnd(event) <= startTime \/ EventStart(event) >= endTime

\* lines 286-292: adjEventStart and duration after the clip at the start of the range
AdjEventStart(event) ==
  IF EventStart(event) < startTime THEN startTime ELSE EventStart(event)

\* (variant) the part of the task before the range is not cut off
ClippedDuration_NoFrontClip(event) == EventDuration(event)

ClippedDuration(event) ==
  IF EventStart(event) < startTime THEN EventEnd(event) - AdjEventStart(event)
  ELSE EventDuration(event)

\* (variant) the clipped lengths of the tasks over the end of the range add up
ClippedLengthAfter_Sum(event) ==
  IF EventEnd(event) > endTime
    THEN grClippedLength + ClippedDuration(event) - (endTime - AdjEventStart(event))
    ELSE grClippedLength

\* lines 293-296: clippedLength after the event
ClippedLengthAfter(event) ==
  IF EventEnd(event) > endTime
    THEN ClippedDuration(event) - (endTime - AdjEventStart(event))
    ELSE grClippedLength

\* (variant) only the part of the task inside the range is pushed
PushedDuration_InWindowOnly(event) ==
  IF EventEnd(event) > endTime THEN endTime - AdjEventStart(event)
  ELSE ClippedDuration(event)

\* line 298: the value pushed for an event of the range
PushedDuration(event) == ClippedDuration(event)

\* lines 248-273: everything before the loop over the tasks.  events[0].ts throws
\* when no event has a non-zero timestamp; startEvent.pid throws in the filter
\* callback when there is no TracingStartedInPage event.
GREnter ==
  /\ pc = "callGR"
  /\ LET sorted == SortByTs(traceEvents)
         events == NonZeroTs(sorted)
         found == FindStartEvent(SearchedEvents(sorted))
     IN /\ traceEvents' = sorted
        /\ IF events = <<>>
             THEN /\ pc' = "threw"
                  /\ UNCHANGED <<rpVars, startTime, endTime, tsBase, startEvent,
                                 topLevelTasks>>
             ELSE /\ tsBase' = events[1].ts
                  /\ startTime' = IF startTime = Undefined THEN 0 ELSE startTime
                  /\ endTime' = IF endTime = Undefined
                                  THEN ToMs(events[Len(events)].ts - events[1].ts)
                                  ELSE endTime
                  /\ totalTime' = endTime' - startTime'
                  /\ percentiles' = IF percentilesArg.given
                                      THEN SortNumbers(percentilesArg.value)
                                      ELSE DefaultPercentiles
                  /\ IF found = <<>>
                       THEN /\ pc' = "threw"
                            /\ UNCHANGED <<startEvent, topLevelTasks>>
                       ELSE /\ pc' = "tasks"
                            /\ startEvent' = found[1]
                            /\ topLevelTasks' =
                                 TopLevelTasksOf(SearchedEvents(sorted), found[1])
                  /\ UNCHANGED <<durations, clippedLength, completedTime, duration,
                                 cdfTime, results, durationIndex, remainingCount, pIdx>>
  /\ UNCHANGED <<inVars, percentilesArg, taskIdx, grClippedLength, inTraceEvents, lnVars>>

\* lines 275-299: the callback of topLevelTasks.forEach, for one task
GRTask ==
  /\ pc = "tasks"
  /\ taskIdx <= Len(topLevelTasks)
  /\ LET event == topLevelTasks[taskIdx]
     IN IF Discarded(event)
          THEN UNCHANGED <<durations, grClippedLength>>
          ELSE /\ grClippedLength' = ClippedLengthAfter(event)
               /\ durations' = Append(durations, PushedDuration(event))
  /\ taskIdx' = taskIdx + 1
  /\ UNCHANGED <<pc, totalTime, percentiles, clippedLength, completedTime, duration,
                 cdfTime, results, durationIndex, remainingCount, pIdx, inVars,
                 traceEvents, startTime, endTime, percentilesArg, tsBase, startEvent,
                 topLevelTasks, inTraceEvents, lnVars>>

\* lines 300-303: durations.sort, then the call of _riskPercentiles
GRCallRiskPercentiles ==
  /\ pc = "tasks"
  /\ taskIdx > Len(topLevelTasks)
  /\ RiskPercentilesEntry(SortNumbers(durations), totalTime, percentiles, grClippedLength)
  /\ inDurations' = SortNumbers(durations)
  /\ inTotalTime' = totalTime
  /\ inPercentiles' = percentiles
  /\ inClippedLength' = grClippedLength
  /\ pc' = "walk"
  /\ UNCHANGED <<grVars, lnVars>>

(* The traces, windows and percentile requests of the calls.               *)
MarkerEvents ==
  {[pid |-> 1, tid |-> t[1], name |-> "TracingStartedInPage", ts |-> t[2], dur |-> Undefined] :
     t \in {<<1, 1000>>, <<2, 1000>>, <<2, 0>>}}

TaskEvents ==
  {[pid |-> 1, tid |-> 1, name |-> "MessageLoop::RunTask", ts |-> t, dur |-> d] :
     t \in {1000, 2000}, d \in {Undefined, 2000, 3000}}
  \cup {[pid |-> 1, tid |-> 1, name |-> "MessageLoop::RunTask", ts |-> 0, dur |-> 3000],
        [pid |-> 1, tid |-> 2, name |-> "MessageLoop::RunTask", ts |-> 1000, dur |-> 2000]}

TraceEventChoices == MarkerEvents \cup TaskEvents
StartTimeChoices == {Undefined, 1}
EndTimeChoices == {Undefined, 1, 2}
PercentilesArgChoices ==
  {[given |-> FALSE, value |-> <<>>], [given |-> TRUE, value |-> <<100, 50>>]}

InitGR ==
  /\ pc = "callGR"
  /\ RPIdle
  /\ inDurations = <<>> /\ inTotalTime = 0 /\ inPercentiles = <<>> /\ inClippedLength = 0
  /\ traceEvents \in SeqsUpTo(TraceEventChoices, MaxEvents)
  /\ inTraceEvents = traceEvents
  /\ startTime \in StartTimeChoices
  /\ endTime \in EndTimeChoices
  /\ percentilesArg \in PercentilesArgChoices
  /\ tsBase = 0 /\ startEvent = NoEvent /\ topLevelTasks = <<>> /\ taskIdx = 1
  /\ grClippedLength = 0
  /\ LNIdle

NextGR ==
  \/ GREnter \/ GRTask \/ GRCallRiskPercentiles
  \/ WalkStep \/ PushResult \/ ReturnResults

SpecGR == InitGR /\ [][NextGR]_vars

----------------------------------------------------------------------------
(* getLogNormalDistribution                                                *)
(* Real numbers are held in thousandths: [kind |-> "fin", milli |-> m] is  *)
(* m / 1000; the other kinds are the IEEE specials.  Arguments are whole   *)
(* multiples of 50.                                                        *)

Fin(m) == [kind |-> "fin", milli |-> m]
PlusInfinity == [kind |-> "+inf", milli |-> 0]
MinusInfinity == [kind |-> "-inf", milli |-> 0]

\* 1000 * ln(50 * k), rounded, for k = 1, 2, ...
LnTable == <<3912, 4605, 5011, 5298, 5521, 5704, 5858, 5991, 6109, 6215, 6310>>
LnMilli(x) == LnTable[x \div 50]

\* Math.log(x) of a number x
MathLog(x) ==
  IF x < 0 THEN NotANumber
  ELSE IF x = 0 THEN MinusInfinity
  ELSE Fin(LnMilli(x))

\* Math.log(a / b): the quotient is +-Infinity or NaN for b = 0, a zero for
\* a = 0, negative for operands of opposite sign; ln(a / b) = ln|a| - ln|b| else
MathLogOfQuotient(a, b) ==
  IF b = 0 THEN (IF a > 0 THEN PlusInfinity ELSE NotANumber)
  ELSE IF a = 0 THEN MinusInfinity
  ELSE IF (a < 0) # (b < 0) THEN NotANumber
  ELSE Fin(LnMilli(Abs(a)) - LnMilli(Abs(b)))

\* floor of the square root of n >= 0
RECURSIVE SqrtBetween(_, _, _)
SqrtBetween(n, lo, hi) ==
  IF lo >= hi THEN lo
  ELSE LET mid == (lo + hi + 1) \div 2
       IN IF mid * mid <= n THEN SqrtBetween(n, mid, hi) ELSE SqrtBetween(n, lo, mid - 1)

Sqrt(n) == SqrtBetween(n, 0, IF n < 40000 THEN n ELSE 40000)

\* line 328: (logRatio - 3) * (logRatio - 3) - 8, in millionths
InnerRadicand(logRatio) == (logRatio - 3000) * (logRatio - 3000) - 8000000

\* (variant) the term 3 * logRatio is added instead of subtracted
OuterRadicand_PlusSign(logRatio) == 1000 + 3 * logRatio - Sqrt(InnerRadicand(logRatio))

\* lines 327-328: 1 - 3 * logRatio - Math.sqrt(inner), in thousandths
OuterRadicand(logRatio) == 1000 - 3 * logRatio - Sqrt(InnerRadicand(logRatio))

\* lines 327-328: shape.  Math.sqrt of a negative number is NaN, and NaN goes
\* through the arithmetic.  For logRatio = +Infinity the outer radicand is
\* 1 - Infinity - Infinity = -Infinity, for -Infinity it is Infinity - Infinity = NaN.
Shape(logRatio) ==
  IF logRatio.kind # "fin" THEN NotANumber
  ELSE IF InnerRadicand(logRatio.milli) < 0 THEN NotANumber
  ELSE IF OuterRadicand(logRatio.milli) < 0 THEN NotANumber
  ELSE Fin(Sqrt(OuterRadicand(logRatio.milli) * 1000) \div 2)

\* lines 320-330: there is no check of the arguments; the call reaches
\* new LogNormalDistribution(location, shape) with the values computed
GetLogNormalDistribution ==
  /\ pc = "callLN"
  /\ location' = MathLog(median)
  /\ shape' = Shape(MathLogOfQuotient(falloff, median))
  /\ pc' = "constructed"
  /\ UNCHANGED <<rpVars, inVars, grVars, median, falloff>>

FitChoices == {-50, 0} \cup {50 * k : k \in 1..MaxFit}

InitLN ==
  /\ pc = "callLN"
  /\ RPIdle
  /\ GRIdle
  /\ inDurations = <<>> /\ inTotalTime = 0 /\ inPercentiles = <<>> /\ inClippedLength = 0
  /\ median \in FitChoices
  /\ falloff \in FitChoices
  /\ location = NotANumber /\ shape = NotANumber

NextLN == GetLogNormalDistribution

SpecLN == InitLN /\ [][NextLN]_vars

----------------------------------------------------------------------------
(* Properties of _riskPercentiles, checked under SpecRP.                   *)

\* C1: the latencies returned by _riskPercentiles are non-decreasing along the
\* requested percentiles: results[i].time <= results[i + 1].time for every two
\* consecutive results, also when the clipped length was walked over as the
\* negative pseudo-interval.
C1_LatenciesNonDecreasing ==
  \A i \in 1..(Len(results) - 1) : NumLeq(results[i].time, results[i + 1].time)

\* a call that consumed the clipped pseudo-interval and returned two latencies,
\* the second strictly larger than the first
C1_Witness ==
  /\ pc = "returned"
  /\ inClippedLength > 0 /\ clippedLength = 0
  /\ Len(results) = 2
  /\ ~NumLeq(results[2].time, results[1].time)

\* C2: whenever a latency is computed (the division of line 230 is performed)
\* remainingCount is at least 1.
C2_RemainingCountAtLeastOne ==
  (pc = "walk" /\ pIdx <= Len(percentiles) /\ ~WalkCondition) => remainingCount >= 1

\* C10: for a non-empty sample with clippedLength = 0 and totalTime >= the sum of
\* the durations, the latency returned for percentile 1 is the largest duration
\* plus BASE_RESPONSE_LATENCY, whatever percentiles came before it in the call.
C10_TopPercentileIsLongestTask ==
  (inDurations # <<>> /\ inClippedLength = 0 /\ inTotalTime >= SumSeq(inDurations)) =>
    \A i \in 1..Len(results) :
      results[i].percentile = PercentDen =>
        /\ results[i].time.kind = "fin"
        /\ results[i].time.num =
             (inDurations[Len(inDurations)] + BASE_RESPONSE_LATENCY) * results[i].time.den

\* a call with idle time and tasks of different lengths whose first percentile
\* already waited behind a task, and whose second percentile is 1
C10_Witness ==
  /\ pc = "returned"
  /\ Len(inDurations) >= 2 /\ inDurations[1] < inDurations[Len(inDurations)]
  /\ inClippedLength = 0 /\ inTotalTime > SumSeq(inDurations)
  /\ Len(results) = 2
  /\ results[1].percentile < PercentDen /\ results[2].percentile = PercentDen
  /\ results[1].time.num > BASE_RESPONSE_LATENCY * results[1].time.den
  /\ durationIndex = Len(inDurations) - 1

----------------------------------------------------------------------------
(* Properties of getRiskToResponsiveness, checked under SpecGR.            *)

Max(a, b) == IF a >= b THEN a ELSE b

\* the forEach callback runs for topLevelTasks[taskIdx] in this step
TaskStep == pc = "tasks" /\ taskIdx' = taskIdx + 1

Overlaps(event) == EventEnd(event) > startTime /\ EventStart(event) < endTime
CrossesEnd(event) == Overlaps(event) /\ EventEnd(event) > endTime

\* C3 (as stated): for a task of the window that extends past windowEnd, the value
\* added to the sample is only the in-window portion, windowEnd - effective start,
\* and clippedLength is the portion beyond windowEnd.
C3_OnlyInWindowPortionAdded ==
  [][(TaskStep /\ CrossesEnd(topLevelTasks[taskIdx])) =>
       LET event == topLevelTasks[taskIdx]
       IN /\ durations' = Append(durations, endTime - Max(EventStart(event), startTime))
          /\ grClippedLength' = EventEnd(event) - endTime]_vars

\* C3 (amended): for a task of the window that extends past windowEnd, the value
\* added to the sample is the whole duration from the effective start,
\* eventEnd - effective start, the part beyond windowEnd included, and
\* clippedLength is that part beyond windowEnd, eventEnd - windowEnd.
C3_FullDurationAdded ==
  [][(TaskStep /\ CrossesEnd(topLevelTasks[taskIdx])) =>
       LET event == topLevelTasks[taskIdx]
       IN /\ durations' = Append(durations, EventEnd(event) - Max(EventStart(event), startTime))
          /\ grClippedLength' = EventEnd(event) - endTime]_vars

\* a task over the end of a well-formed window has just been sampled: its whole
\* duration is the last of the sample, longer than its in-window portion
C3_Witness ==
  /\ pc = "tasks" /\ taskIdx > 1 /\ startTime < endTime
  /\ LET event == topLevelTasks[taskIdx - 1]
     IN /\ CrossesEnd(event)
        /\ durations # <<>>
        /\ durations[Len(durations)] = EventEnd(event) - Max(EventStart(event), startTime)
        /\ durations[Len(durations)] > endTime - Max(EventStart(event), startTime)
        /\ grClippedLength = EventEnd(event) - endTime

\* C4: a main-thread task adds a duration to the sample only if it overlaps the
\* window (eventEnd > windowStart and eventStart < windowEnd); the duration added
\* starts no earlier than windowStart: eventEnd - windowStart for a task with
\* eventStart < windowStart, the task's own duration otherwise.
C4_ContributionStartsInWindow ==
  [][TaskStep =>
       LET event == topLevelTasks[taskIdx]
       IN IF Overlaps(event)
            THEN durations' =
                   Append(durations,
                          IF EventStart(event) < startTime
                            THEN EventEnd(event) - startTime
                            ELSE EventDuration(event))
            ELSE durations' = durations]_vars

\* a task that began before windowStart has just been sampled with less than
\* its own duration
C4_Witness ==
  /\ pc = "tasks" /\ taskIdx > 1
  /\ LET event == topLevelTasks[taskIdx - 1]
     IN /\ EventStart(event) < startTime /\ Overlaps(event)
        /\ durations # <<>>
        /\ durations[Len(durations)] = EventEnd(event) - startTime
        /\ durations[Len(durations)] < EventDuration(event)

\* C5: an event with timestamp 0 is never the thread-identifying marker and
\* never adds a duration to the sample.
C5_ZeroTimestampDiscarded ==
  pc \in {"tasks", "walk", "returned"} =>
    /\ startEvent.ts # 0
    /\ \A i \in 1..(taskIdx - 1) :
         topLevelTasks[i].ts = 0 => Discarded(topLevelTasks[i])

\* the end of the span of the event stream, relative to tsBase, in ms
SpanEnd == LET events == NonZeroTs(traceEvents)
           IN ToMs(events[Len(events)].ts - tsBase)

\* C6: a call whose window (after the defaulting) has startTime >= endTime, or
\* bounds outside the span of the event stream, does not return results.
C6_InvalidWindowFails ==
  pc = "returned" =>
    /\ startTime < endTime
    /\ 0 <= startTime
    /\ endTime <= SpanEnd

\* C7: after a call, trace.traceEvents, the percentiles array of the caller and
\* the durations array are as they were before the call.
C7_InputsUnchanged ==
  pc = "returned" =>
    /\ traceEvents = inTraceEvents
    /\ percentilesArg.given => percentiles = percentilesArg.value
    /\ durations = inDurations

\* the tasks among the first k that overlap the window and extend past windowEnd
CrossingTasks(k) == {i \in 1..k : CrossesEnd(topLevelTasks[i])}

SetMax(S) == CHOOSE x \in S : \A y \in S : y <= x

\* the part beyond windowEnd of the last of the first k tasks that crosses it
LastClipped(k) ==
  IF CrossingTasks(k) = {} THEN 0
  ELSE EventEnd(topLevelTasks[SetMax(CrossingTasks(k))]) - endTime

\* C9: the tasks are sampled in ascending timestamp order, and clippedLength is
\* the value of the last task sampled that extends past windowEnd (0 when there
\* is none): values are overwritten, not summed, and a later task that does not
\* cross windowEnd leaves it; that value is what the estimator is called with.
C9_LastClippedLengthWins ==
  /\ pc \in {"tasks", "walk", "returned"} =>
       \A i \in 1..(Len(topLevelTasks) - 1) : topLevelTasks[i].ts <= topLevelTasks[i + 1].ts
  /\ pc = "tasks" => grClippedLength = LastClipped(taskIdx - 1)
  /\ pc \in {"walk", "returned"} => inClippedLength = LastClipped(Len(topLevelTasks))

\* the estimator has been called after two tasks crossed windowEnd by different
\* lengths, with the length of the later one
C9_Witness ==
  /\ pc = "walk"
  /\ \E i, j \in CrossingTasks(Len(topLevelTasks)) :
       /\ i < j
       /\ EventEnd(topLevelTasks[i]) # EventEnd(topLevelTasks[j])
       /\ j = SetMax(CrossingTasks(Len(topLevelTasks)))
       /\ inClippedLength = EventEnd(topLevelTasks[j]) - endTime
  /\ inClippedLength > 0

----------------------------------------------------------------------------
(* Properties of getLogNormalDistribution, checked under SpecLN.           *)

====
